---- MODULE Spec2Model ----
(***************************************************************************)
(* Model of src/main.rs: an eframe application (MyApp) that owns a         *)
(* RotatingTriangle behind Arc<Mutex<..>>, paints it from an egui paint    *)
(* callback and destroys its GL objects in on_exit.                        *)
(*                                                                         *)
(* Two threads are modelled.  The UI thread runs MyApp::new (and therefore *)
(* RotatingTriangle::new, create_program and create_shader, one GL call    *)
(* per step), then update once per frame, then on_exit.  The render thread *)
(* runs the paint callbacks that update registered, one GL call per step.  *)
(* The GL context is modelled by the names it has generated, the names     *)
(* still live, shader/program status, buffer contents, vertex array state  *)
(* and the context-global bindings.                                        *)
(*                                                                         *)
(* The host (eframe/egui) is not part of the source.  It is modelled by    *)
(* its lifecycle: it calls MyApp::new once, then update once per frame,    *)
(* invokes the paint callbacks a frame registered while the run loop is    *)
(* running, and calls on_exit once, after the callbacks of the last frame  *)
(* have been painted.  Between callbacks it paints its own widgets and     *)
(* leaves its own GL objects bound.  Nothing in main.rs itself orders      *)
(* paint before destroy: RotatingTriangle keeps no destroyed flag.         *)
(*                                                                         *)
(* f32 values are modelled exactly, as integers in units of 2^-28 with     *)
(* IEEE-754 round-to-nearest-even applied after every addition.            *)
(***************************************************************************)
EXTENDS Integers, Naturals, Sequences, FiniteSets, TLC

(* ------------------------------ bounds -------------------------------- *)

\* paint callbacks dispatched in one run
MaxDraws == 45

\* paint callbacks registered by update and not yet dispatched
MaxPending == 2

(* --------------------------- f32 arithmetic --------------------------- *)

\* 1.0f32 in units of 2^-28
One == 2^28

\* 0.05f32 = 0x3D4CCCCD = 13421773 * 2^-28
Step == 13421773

\* 0.2f32 = 0x3E4CCCCD = 53687092 * 2^-28
PointTwo == 53687092

\* 0.5f32
Half == 2^27

\* the f32 unit in the last place for a magnitude v: the least power of two
\* u such that v < 2^24 * u (24-bit significand)
RECURSIVE Ulp(_, _)
Ulp(v, u) == IF v < (2^24) * u THEN u ELSE Ulp(v, 2 * u)

\* round-to-nearest, ties-to-even, of a non-negative exact value
F32Round(v) ==
    LET u == Ulp(v, 1)
        q == v \div u
        r == v % u
    IN  IF 2 * r < u THEN q * u
        ELSE IF 2 * r > u THEN (q + 1) * u
        ELSE IF q % 2 = 0 THEN q * u ELSE (q + 1) * u

\* f32 addition of two non-negative f32 values
F32Add(a, b) == F32Round(a + b)

(* ----------------------------- GL handles ----------------------------- *)

NoHandle == [kind |-> "none", id |-> 0]

\* objects of the host's own painter, which exist before the app is created
HostProgram == [kind |-> "program", id |-> 1]
HostVertexArray == [kind |-> "vertex_array", id |-> 1]
HostBuffer == [kind |-> "buffer", id |-> 1]
HostObjects == {HostProgram, HostVertexArray, HostBuffer}

\* shader source bodies (the text itself is opaque)
VERTEX_SHADER_SOURCE == "VERTEX_SHADER_SOURCE"
FRAGMENT_SHADER_SOURCE == "FRAGMENT_SHADER_SOURCE"

Stages == {"vertex", "fragment"}

\* data uploaded by paint
vertices == << -Half, -Half, Half, -Half, Half, Half, -Half, Half >>
indices == << 0, 1, 2, 2, 3, 0 >>

VARIABLES
    target,         \* compile target: "wasm32" or "native"
    uiPc,           \* position of the UI thread
    abortReason,    \* which expect/assert panicked, "" if none
    stage,          \* create_shader: the stage being built
    locals,         \* locals of create_program / create_shader / new
    tri,            \* the RotatingTriangle inside the Arc<Mutex<..>>
    constructed,    \* MyApp::new has returned
    exitGl,         \* the Option on_exit was given: "", "Some" or "None"
    mutex,          \* holder of the Mutex: "free", "paint" or "destroy"
    pending,        \* paint callbacks registered and not yet dispatched
    rPc,            \* position of the render thread
    location,       \* paint local: result of get_uniform_location
    created,        \* GL names ever generated
    live,           \* GL names generated and not deleted
    shaderSource,   \* shader handle -> <<version, body>>
    compileStatus,  \* shader handle -> BOOLEAN
    attached,       \* shaders attached to our program
    linkStatus,     \* "none", "ok" or "failed"
    linkedStages,   \* shaders that were attached when link_program ran
    linkCalls,      \* number of link_program calls
    detached,       \* shaders detached from our program
    deletes,        \* log of delete_* calls (handles, in order)
    bufferData,     \* buffer handle -> uploaded data
    vaoState,       \* vertex array handle -> [enabled0, attrib0, element]
    bindings,       \* context-global bindings
    uniforms,       \* program handle -> u_color value
    lastDraw,       \* what the most recent draw_elements consumed
    bindLog,        \* targets bound so far by the paint in progress
    draws,          \* paints completed so far
    entryCounter,   \* counter value when the paint in progress started
    uploads         \* first channel of every u_color upload, in order

uiVars == <<uiPc, abortReason, stage, locals, constructed, exitGl>>
shaderVars == <<shaderSource, compileStatus, attached, linkStatus,
                linkedStages, linkCalls, detached>>
objVars == <<created, live, deletes>>
drawVars == <<bufferData, vaoState, bindings, uniforms, lastDraw>>
renderVars == <<rPc, location, bindLog, draws, entryCounter, uploads>>

vars == <<target, uiVars, tri, mutex, pending, shaderVars, objVars,
          drawVars, renderVars>>

(* ------------------------------ helpers ------------------------------- *)

\* a fresh name of the given kind, as glGen* / glCreate* produce
Fresh(kind) ==
    [kind |-> kind,
     id |-> Cardinality({h \in created : h.kind = kind}) + 1]

NoLocals ==
    [program |-> NoHandle, shader |-> NoHandle,
     vertex_shader |-> NoHandle, fragment_shader |-> NoHandle,
     vertex_buffer_object |-> NoHandle, vertex_array_object |-> NoHandle,
     index_buffer_object |-> NoHandle]

NoTriangle ==
    [program |-> NoHandle, vertex_array_object |-> NoHandle,
     vertex_buffer_object |-> NoHandle, index_buffer_object |-> NoHandle,
     counter |-> 0]

NoVaoState == [enabled0 |-> FALSE, attrib0 |-> NoHandle, element |-> NoHandle]

NoDraw == [mode |-> "none", count |-> 0, program |-> NoHandle,
           vertex_array |-> NoHandle, attrib0 |-> NoHandle,
           element |-> NoHandle, available |-> 0]

NoBindings == [array_buffer |-> NoHandle, vertex_array |-> NoHandle,
               program |-> NoHandle]

\* create_program lines 169-173
shader_version == IF target = "wasm32" THEN "#version 300 es" ELSE "#version 330"

\* a panic on the UI thread: the process aborts
Panic(reason) ==
    /\ uiPc' = "aborted"
    /\ abortReason' = reason

Init ==
    /\ target \in {"wasm32", "native"}
    /\ uiPc = "start"
    /\ abortReason = ""
    /\ stage = "none"
    /\ locals = NoLocals
    /\ tri = NoTriangle
    /\ constructed = FALSE
    /\ exitGl = ""
    /\ mutex = "free"
    /\ pending = 0
    /\ rPc = "idle"
    /\ location = "none"
    /\ created = HostObjects
    /\ live = HostObjects
    /\ shaderSource = << >>
    /\ compileStatus = << >>
    /\ attached = {}
    /\ linkStatus = "none"
    /\ linkedStages = {}
    /\ linkCalls = 0
    /\ detached = {}
    /\ deletes = << >>
    /\ bufferData = << >>
    /\ vaoState = (NoHandle :> NoVaoState) @@ (HostVertexArray :> NoVaoState)
    /\ bindings = NoBindings
    /\ uniforms = << >>
    /\ lastDraw = NoDraw
    /\ bindLog = << >>
    /\ draws = 0
    /\ entryCounter = 0
    /\ uploads = << >>


(* ------------------- UI thread: MyApp::new and below ------------------ *)

\* everything the construction steps leave alone
ConstructionFrame ==
    UNCHANGED <<target, exitGl, tri, mutex, pending, drawVars, renderVars>>


\* variant of MyApp_new: returns without building the RotatingTriangle
MyApp_new_lazy ==
    /\ uiPc = "start"
    /\ uiPc' = "running"
    /\ UNCHANGED <<abortReason, stage, locals, constructed, shaderVars,
                   objVars>>
    /\ ConstructionFrame

\* MyApp::new, lines 23-27: cc.gl must be present
MyApp_new ==
    /\ uiPc = "start"
    /\ \E gl \in {"Some", "None"} :
          IF gl = "None"
          THEN Panic("You need to run eframe with glow backend")
          ELSE /\ uiPc' = "create_program"
               /\ abortReason' = abortReason
    /\ UNCHANGED <<stage, locals, constructed, shaderVars, objVars>>
    /\ ConstructionFrame

\* create_program, line 167: gl.create_program().expect(..)
CreateProgram ==
    /\ uiPc = "create_program"
    /\ \E ok \in BOOLEAN :
          IF ok
          THEN /\ locals' = [locals EXCEPT !.program = Fresh("program")]
               /\ created' = created \cup {Fresh("program")}
               /\ live' = live \cup {Fresh("program")}
               /\ stage' = "vertex"
               /\ uiPc' = "shader_create"
               /\ abortReason' = abortReason
          ELSE /\ Panic("Cannot create program.")
               /\ UNCHANGED <<locals, created, live, stage>>
    /\ UNCHANGED <<constructed, shaderVars, deletes>>
    /\ ConstructionFrame

\* create_shader, lines 215-217: gl.create_shader(shader_type).expect(..)
CreateShader ==
    /\ uiPc = "shader_create"
    /\ \E ok \in BOOLEAN :
          IF ok
          THEN /\ locals' = [locals EXCEPT !.shader = Fresh("shader")]
               /\ created' = created \cup {Fresh("shader")}
               /\ live' = live \cup {Fresh("shader")}
               /\ uiPc' = "shader_source"
               /\ abortReason' = abortReason
          ELSE /\ Panic("Cannot create shader.")
               /\ UNCHANGED <<locals, created, live>>
    /\ UNCHANGED <<stage, constructed, shaderVars, deletes>>
    /\ ConstructionFrame

\* create_shader, line 218: the version line followed by the stage's body
ShaderSource ==
    /\ uiPc = "shader_source"
    /\ shaderSource' =
          (locals.shader :>
              <<shader_version,
                IF stage = "vertex" THEN VERTEX_SHADER_SOURCE
                                    ELSE FRAGMENT_SHADER_SOURCE>>)
          @@ shaderSource
    /\ uiPc' = "shader_compile"
    /\ UNCHANGED <<abortReason, stage, locals, constructed, compileStatus,
                   attached, linkStatus, linkedStages, linkCalls, detached,
                   objVars>>
    /\ ConstructionFrame

\* create_shader, line 219: the driver reports success or failure
CompileShader ==
    /\ uiPc = "shader_compile"
    /\ \E ok \in BOOLEAN :
          compileStatus' = (locals.shader :> ok) @@ compileStatus
    /\ uiPc' = "shader_status"
    /\ UNCHANGED <<abortReason, stage, locals, constructed, shaderSource,
                   attached, linkStatus, linkedStages, linkCalls, detached,
                   objVars>>
    /\ ConstructionFrame

\* create_shader, lines 220-226: assert on the compile status, then return
\* the shader to create_program (lines 175-186)
ShaderStatus ==
    /\ uiPc = "shader_status"
    /\ IF ~compileStatus[locals.shader]
       THEN /\ Panic("Failed to compile")
            /\ UNCHANGED <<locals, stage>>
       ELSE /\ abortReason' = abortReason
            /\ IF stage = "vertex"
               THEN /\ locals' = [locals EXCEPT !.vertex_shader = locals.shader]
                    /\ stage' = "fragment"
                    /\ uiPc' = "shader_create"
               ELSE /\ locals' = [locals EXCEPT !.fragment_shader = locals.shader]
                    /\ stage' = "none"
                    /\ uiPc' = "attach_vertex"
    /\ UNCHANGED <<constructed, shaderVars, objVars>>
    /\ ConstructionFrame

\* create_program, line 188
AttachVertex ==
    /\ uiPc = "attach_vertex"
    /\ attached' = attached \cup {locals.vertex_shader}
    /\ uiPc' = "attach_fragment"
    /\ UNCHANGED <<abortReason, stage, locals, constructed, shaderSource,
                   compileStatus, linkStatus, linkedStages, linkCalls,
                   detached, objVars>>
    /\ ConstructionFrame

\* create_program, line 189
AttachFragment ==
    /\ uiPc = "attach_fragment"
    /\ attached' = attached \cup {locals.fragment_shader}
    /\ uiPc' = "link"
    /\ UNCHANGED <<abortReason, stage, locals, constructed, shaderSource,
                   compileStatus, linkStatus, linkedStages, linkCalls,
                   detached, objVars>>
    /\ ConstructionFrame

\* create_program, line 191: link what is attached; a program without both
\* a compiled vertex and a compiled fragment stage cannot link
LinkProgram ==
    /\ uiPc = "link"
    /\ linkedStages' = attached
    /\ linkCalls' = linkCalls + 1
    /\ \E ok \in BOOLEAN :
          linkStatus' =
             IF /\ ok
                /\ locals.vertex_shader \in attached
                /\ locals.fragment_shader \in attached
             THEN "ok" ELSE "failed"
    /\ uiPc' = "link_status"
    /\ UNCHANGED <<abortReason, stage, locals, constructed, shaderSource,
                   compileStatus, attached, detached, objVars>>
    /\ ConstructionFrame


\* variant of LinkStatus: the link status is not asserted
LinkStatus_unchecked ==
    /\ uiPc = "link_status"
    /\ uiPc' = "detach_vertex"
    /\ UNCHANGED <<abortReason, stage, locals, constructed, shaderVars,
                   objVars>>
    /\ ConstructionFrame

\* create_program, lines 192-196: assert on the link status
LinkStatus ==
    /\ uiPc = "link_status"
    /\ IF linkStatus = "ok"
       THEN /\ uiPc' = "detach_vertex"
            /\ abortReason' = abortReason
       ELSE Panic("link failed")
    /\ UNCHANGED <<stage, locals, constructed, shaderVars, objVars>>
    /\ ConstructionFrame

\* create_program, line 198
DetachVertex ==
    /\ uiPc = "detach_vertex"
    /\ attached' = attached \ {locals.vertex_shader}
    /\ detached' = detached \cup {locals.vertex_shader}
    /\ uiPc' = "detach_fragment"
    /\ UNCHANGED <<abortReason, stage, locals, constructed, shaderSource,
                   compileStatus, linkStatus, linkedStages, linkCalls,
                   objVars>>
    /\ ConstructionFrame

\* create_program, line 199
DetachFragment ==
    /\ uiPc = "detach_fragment"
    /\ attached' = attached \ {locals.fragment_shader}
    /\ detached' = detached \cup {locals.fragment_shader}
    /\ uiPc' = "delete_vertex"
    /\ UNCHANGED <<abortReason, stage, locals, constructed, shaderSource,
                   compileStatus, linkStatus, linkedStages, linkCalls,
                   objVars>>
    /\ ConstructionFrame

\* create_program, line 201
DeleteVertexShader ==
    /\ uiPc = "delete_vertex"
    /\ live' = live \ {locals.vertex_shader}
    /\ deletes' = Append(deletes, locals.vertex_shader)
    /\ uiPc' = "delete_fragment"
    /\ UNCHANGED <<abortReason, stage, locals, constructed, shaderVars,
                   created>>
    /\ ConstructionFrame

\* create_program, lines 202-204: delete the fragment shader, return program
DeleteFragmentShader ==
    /\ uiPc = "delete_fragment"
    /\ live' = live \ {locals.fragment_shader}
    /\ deletes' = Append(deletes, locals.fragment_shader)
    /\ uiPc' = "create_vbo"
    /\ UNCHANGED <<abortReason, stage, locals, constructed, shaderVars,
                   created>>
    /\ ConstructionFrame

\* RotatingTriangle::new, line 93
CreateVertexBuffer ==
    /\ uiPc = "create_vbo"
    /\ \E ok \in BOOLEAN :
          IF ok
          THEN /\ locals' = [locals EXCEPT
                                !.vertex_buffer_object = Fresh("buffer")]
               /\ created' = created \cup {Fresh("buffer")}
               /\ live' = live \cup {Fresh("buffer")}
               /\ uiPc' = "create_vao"
               /\ abortReason' = abortReason
          ELSE /\ Panic("Cannot create vertex buffer.")
               /\ UNCHANGED <<locals, created, live>>
    /\ UNCHANGED <<stage, constructed, shaderVars, deletes>>
    /\ ConstructionFrame

\* RotatingTriangle::new, lines 95-97
CreateVertexArray ==
    /\ uiPc = "create_vao"
    /\ \E ok \in BOOLEAN :
          IF ok
          THEN /\ locals' = [locals EXCEPT
                                !.vertex_array_object = Fresh("vertex_array")]
               /\ created' = created \cup {Fresh("vertex_array")}
               /\ live' = live \cup {Fresh("vertex_array")}
               /\ uiPc' = "create_ibo"
               /\ abortReason' = abortReason
          ELSE /\ Panic("Cannot create vertex array.")
               /\ UNCHANGED <<locals, created, live>>
    /\ UNCHANGED <<stage, constructed, shaderVars, deletes>>
    /\ ConstructionFrame

\* RotatingTriangle::new, line 99
CreateIndexBuffer ==
    /\ uiPc = "create_ibo"
    /\ \E ok \in BOOLEAN :
          IF ok
          THEN /\ locals' = [locals EXCEPT
                                !.index_buffer_object = Fresh("buffer")]
               /\ created' = created \cup {Fresh("buffer")}
               /\ live' = live \cup {Fresh("buffer")}
               /\ uiPc' = "construct"
               /\ abortReason' = abortReason
          ELSE /\ Panic("Cannot create index buffer.")
               /\ UNCHANGED <<locals, created, live>>
    /\ UNCHANGED <<stage, constructed, shaderVars, deletes>>
    /\ ConstructionFrame

\* RotatingTriangle::new, lines 101-107, and MyApp::new, lines 28-30: the
\* struct is built, wrapped in Arc<Mutex<..>> and MyApp::new returns
Construct ==
    /\ uiPc = "construct"
    /\ tri' = [program |-> locals.program,
               vertex_array_object |-> locals.vertex_array_object,
               vertex_buffer_object |-> locals.vertex_buffer_object,
               index_buffer_object |-> locals.index_buffer_object,
               counter |-> 0]
    /\ constructed' = TRUE
    /\ uiPc' = "running"
    /\ UNCHANGED <<target, abortReason, stage, locals, exitGl, mutex,
                   pending, shaderVars, objVars, drawVars, renderVars>>


(* ----------------------- UI thread: update frames --------------------- *)

\* update -> custom_painting, lines 53-66 and 33-49: the Arc is cloned into
\* a closure and the closure is added to this frame's paint commands
Update ==
    /\ uiPc = "running"
    /\ pending < MaxPending
    /\ pending' = pending + 1
    /\ UNCHANGED <<target, uiVars, tri, mutex, shaderVars, objVars,
                   drawVars, renderVars>>

(* ------------------- render thread: the paint callback ---------------- *)

\* the host paints its own widgets between callbacks and leaves its own
\* objects bound
HostPaint ==
    /\ uiPc = "running"
    /\ rPc = "idle"
    /\ bindings' = [array_buffer |-> HostBuffer,
                    vertex_array |-> HostVertexArray,
                    program |-> HostProgram]
    /\ vaoState' = [vaoState EXCEPT ![HostVertexArray] =
                       [enabled0 |-> TRUE, attrib0 |-> HostBuffer,
                        element |-> HostBuffer]]
    /\ UNCHANGED <<target, uiVars, tri, mutex, pending, shaderVars, objVars,
                   bufferData, uniforms, lastDraw, renderVars>>

\* what a render-thread step inside paint leaves alone besides GL state
PaintFrame ==
    UNCHANGED <<target, uiVars, pending, shaderVars, objVars>>

\* the host invokes the closure of line 41 while the run loop is running
Dispatch ==
    /\ uiPc = "running"
    /\ rPc = "idle"
    /\ pending > 0
    /\ draws < MaxDraws
    /\ pending' = pending - 1
    /\ rPc' = "lock"
    /\ UNCHANGED <<target, uiVars, tri, mutex, shaderVars, objVars,
                   drawVars, location, bindLog, draws, entryCounter,
                   uploads>>


\* variant of PaintLock: the guard is dropped before paint is entered
PaintLock_dropped ==
    /\ rPc = "lock"
    /\ mutex = "free"
    /\ mutex' = "free"
    /\ rPc' = "bind_vbo"
    /\ bindLog' = << >>
    /\ entryCounter' = tri.counter
    /\ location' = "none"
    /\ UNCHANGED <<tri, drawVars, draws, uploads>>
    /\ PaintFrame

\* lines 42-45: rotating_triangle.lock().expect(..), then paint is entered
PaintLock ==
    /\ rPc = "lock"
    /\ mutex = "free"
    /\ mutex' = "paint"
    /\ rPc' = "bind_vbo"
    /\ bindLog' = << >>
    /\ entryCounter' = tri.counter
    /\ location' = "none"
    /\ UNCHANGED <<tri, drawVars, draws, uploads>>
    /\ PaintFrame

\* paint, line 138
BindVertexBuffer ==
    /\ rPc = "bind_vbo"
    /\ bindings' = [bindings EXCEPT !.array_buffer = tri.vertex_buffer_object]
    /\ bindLog' = Append(bindLog, "ARRAY_BUFFER")
    /\ rPc' = "data_vbo"
    /\ UNCHANGED <<tri, mutex, bufferData, vaoState, uniforms, lastDraw,
                   location, draws, entryCounter, uploads>>
    /\ PaintFrame


\* variant of VertexBufferData: a new buffer is allocated for every upload
VertexBufferData_realloc ==
    /\ rPc = "data_vbo"
    /\ tri' = [tri EXCEPT !.vertex_buffer_object = Fresh("buffer")]
    /\ created' = created \cup {Fresh("buffer")}
    /\ live' = live \cup {Fresh("buffer")}
    /\ bufferData' = (Fresh("buffer") :> vertices) @@ bufferData
    /\ bindings' = [bindings EXCEPT !.array_buffer = Fresh("buffer")]
    /\ rPc' = "bind_vao"
    /\ UNCHANGED <<mutex, vaoState, uniforms, lastDraw, location, bindLog,
                   draws, entryCounter, uploads>>
    /\ UNCHANGED <<target, uiVars, pending, shaderVars, deletes>>

\* paint, line 139: upload the vertices to the buffer bound to ARRAY_BUFFER
VertexBufferData ==
    /\ rPc = "data_vbo"
    /\ bufferData' =
          IF bindings.array_buffer = NoHandle THEN bufferData
          ELSE (bindings.array_buffer :> vertices) @@ bufferData
    /\ rPc' = "bind_vao"
    /\ UNCHANGED <<tri, mutex, vaoState, bindings, uniforms, lastDraw,
                   location, bindLog, draws, entryCounter, uploads>>
    /\ PaintFrame

\* paint, line 141: the first bind of a name creates the array's state
BindVertexArray ==
    /\ rPc = "bind_vao"
    /\ bindings' = [bindings EXCEPT !.vertex_array = tri.vertex_array_object]
    /\ vaoState' =
          IF tri.vertex_array_object \in DOMAIN vaoState THEN vaoState
          ELSE (tri.vertex_array_object :> NoVaoState) @@ vaoState
    /\ bindLog' = Append(bindLog, "VERTEX_ARRAY")
    /\ rPc' = "enable_attrib"
    /\ UNCHANGED <<tri, mutex, bufferData, uniforms, lastDraw, location,
                   draws, entryCounter, uploads>>
    /\ PaintFrame

\* paint, line 142: attribute 0 of the bound vertex array
EnableVertexAttribArray ==
    /\ rPc = "enable_attrib"
    /\ vaoState' = [vaoState EXCEPT ![bindings.vertex_array].enabled0 = TRUE]
    /\ rPc' = "attrib_pointer"
    /\ UNCHANGED <<tri, mutex, bufferData, bindings, uniforms, lastDraw,
                   location, bindLog, draws, entryCounter, uploads>>
    /\ PaintFrame

\* paint, line 143: attribute 0 reads from the buffer bound to ARRAY_BUFFER
VertexAttribPointer ==
    /\ rPc = "attrib_pointer"
    /\ vaoState' = [vaoState EXCEPT
                       ![bindings.vertex_array].attrib0 = bindings.array_buffer]
    /\ rPc' = "bind_ibo"
    /\ UNCHANGED <<tri, mutex, bufferData, bindings, uniforms, lastDraw,
                   location, bindLog, draws, entryCounter, uploads>>
    /\ PaintFrame

\* paint, line 145: the element binding belongs to the bound vertex array
BindIndexBuffer ==
    /\ rPc = "bind_ibo"
    /\ vaoState' = [vaoState EXCEPT
                       ![bindings.vertex_array].element = tri.index_buffer_object]
    /\ bindLog' = Append(bindLog, "ELEMENT_ARRAY_BUFFER")
    /\ rPc' = "data_ibo"
    /\ UNCHANGED <<tri, mutex, bufferData, bindings, uniforms, lastDraw,
                   location, draws, entryCounter, uploads>>
    /\ PaintFrame

\* paint, line 146: upload the indices to the bound element buffer
IndexBufferData ==
    /\ rPc = "data_ibo"
    /\ bufferData' =
          LET b == vaoState[bindings.vertex_array].element
          IN  IF b = NoHandle THEN bufferData
              ELSE (b :> indices) @@ bufferData
    /\ rPc' = "use_program"
    /\ UNCHANGED <<tri, mutex, vaoState, bindings, uniforms, lastDraw,
                   location, bindLog, draws, entryCounter, uploads>>
    /\ PaintFrame


\* variant of UseProgram: the program is assumed to be still in use
UseProgram_skipped ==
    /\ rPc = "use_program"
    /\ rPc' = "get_location"
    /\ UNCHANGED <<tri, mutex, drawVars, location, bindLog, draws,
                   entryCounter, uploads>>
    /\ PaintFrame

\* paint, line 148
UseProgram ==
    /\ rPc = "use_program"
    /\ bindings' = [bindings EXCEPT !.program = tri.program]
    /\ bindLog' = Append(bindLog, "PROGRAM")
    /\ rPc' = "get_location"
    /\ UNCHANGED <<tri, mutex, bufferData, vaoState, uniforms, lastDraw,
                   location, draws, entryCounter, uploads>>
    /\ PaintFrame

\* paint, line 150: u_color is an active uniform of the linked program
GetUniformLocation ==
    /\ rPc = "get_location"
    /\ location' = IF tri.program \in live /\ linkStatus = "ok"
                   THEN "u_color" ELSE "none"
    /\ rPc' = "uniform"
    /\ UNCHANGED <<tri, mutex, drawVars, bindLog, draws, entryCounter,
                   uploads>>
    /\ PaintFrame


\* variant of Uniform4f32: the value uploaded is the advanced counter
Uniform4f32_advanced ==
    /\ rPc = "uniform"
    /\ uniforms' =
          IF location = "none" \/ bindings.program = NoHandle THEN uniforms
          ELSE (bindings.program :>
                   <<F32Add(tri.counter, Step), PointTwo, PointTwo, One>>)
               @@ uniforms
    /\ uploads' = Append(uploads, F32Add(tri.counter, Step))
    /\ rPc' = "draw"
    /\ UNCHANGED <<tri, mutex, bufferData, vaoState, bindings, lastDraw,
                   location, bindLog, draws, entryCounter>>
    /\ PaintFrame

\* paint, line 151: the uniform of the program in use is set
Uniform4f32 ==
    /\ rPc = "uniform"
    /\ uniforms' =
          IF location = "none" \/ bindings.program = NoHandle THEN uniforms
          ELSE (bindings.program :> <<tri.counter, PointTwo, PointTwo, One>>)
               @@ uniforms
    /\ uploads' = Append(uploads, tri.counter)
    /\ rPc' = "draw"
    /\ UNCHANGED <<tri, mutex, bufferData, vaoState, bindings, lastDraw,
                   location, bindLog, draws, entryCounter>>
    /\ PaintFrame

\* paint, line 153: an indexed draw consumes the current bindings
DrawElements ==
    /\ rPc = "draw"
    /\ lastDraw' =
          LET va == vaoState[bindings.vertex_array]
          IN  [mode |-> "TRIANGLES",
               count |-> Len(indices),
               program |-> bindings.program,
               vertex_array |-> bindings.vertex_array,
               attrib0 |-> IF va.enabled0 THEN va.attrib0 ELSE NoHandle,
               element |-> va.element,
               available |-> IF va.element \in DOMAIN bufferData
                             THEN Len(bufferData[va.element]) ELSE 0]
    /\ rPc' = "reset"
    /\ UNCHANGED <<tri, mutex, bufferData, vaoState, bindings, uniforms,
                   location, bindLog, draws, entryCounter, uploads>>
    /\ PaintFrame


\* variant of ResetCounter: the counter is never reset
ResetCounter_never ==
    /\ rPc = "reset"
    /\ rPc' = "advance"
    /\ UNCHANGED <<tri, mutex, drawVars, location, bindLog, draws,
                   entryCounter, uploads>>
    /\ PaintFrame

\* paint, lines 155-157
ResetCounter ==
    /\ rPc = "reset"
    /\ tri' = IF tri.counter > One THEN [tri EXCEPT !.counter = 0] ELSE tri
    /\ rPc' = "advance"
    /\ UNCHANGED <<mutex, drawVars, location, bindLog, draws, entryCounter,
                   uploads>>
    /\ PaintFrame


\* variant of AdvanceCounter: the step is added twice
AdvanceCounter_twice ==
    /\ rPc = "advance"
    /\ tri' = [tri EXCEPT
                  !.counter = F32Add(F32Add(tri.counter, Step), Step)]
    /\ draws' = draws + 1
    /\ rPc' = "unlock"
    /\ UNCHANGED <<mutex, drawVars, location, bindLog, entryCounter, uploads>>
    /\ PaintFrame

\* paint, line 159
AdvanceCounter ==
    /\ rPc = "advance"
    /\ tri' = [tri EXCEPT !.counter = F32Add(tri.counter, Step)]
    /\ draws' = draws + 1
    /\ rPc' = "unlock"
    /\ UNCHANGED <<mutex, drawVars, location, bindLog, entryCounter, uploads>>
    /\ PaintFrame

\* line 45: the MutexGuard temporary is dropped when paint has returned
PaintUnlock ==
    /\ rPc = "unlock"
    /\ mutex' = "free"
    /\ rPc' = "idle"
    /\ UNCHANGED <<tri, drawVars, location, bindLog, draws, entryCounter,
                   uploads>>
    /\ PaintFrame

(* ---------------------- UI thread: on_exit, destroy ------------------- *)

ExitFrame ==
    UNCHANGED <<target, abortReason, stage, locals, constructed, tri,
                pending, shaderVars, bufferData, uniforms, lastDraw,
                renderVars>>

\* on_exit, lines 68-69: the host calls it once, after the last frame has
\* been painted, with the GL context if it still has one
OnExit ==
    /\ uiPc = "running"
    /\ rPc = "idle"
    /\ pending = 0
    /\ \E gl \in {"Some", "None"} :
          /\ exitGl' = gl
          /\ uiPc' = IF gl = "Some" THEN "exit_lock" ELSE "exited"
    /\ UNCHANGED <<mutex, objVars, vaoState, bindings>>
    /\ ExitFrame

\* on_exit, lines 70-72: lock().expect(..)
ExitLock ==
    /\ uiPc = "exit_lock"
    /\ mutex = "free"
    /\ mutex' = "destroy"
    /\ uiPc' = "delete_program"
    /\ UNCHANGED <<exitGl, objVars, vaoState, bindings>>
    /\ ExitFrame

\* destroy, line 114
DeleteProgram ==
    /\ uiPc = "delete_program"
    /\ live' = live \ {tri.program}
    /\ deletes' = Append(deletes, tri.program)
    /\ uiPc' = "delete_vao"
    /\ UNCHANGED <<exitGl, mutex, created, vaoState, bindings>>
    /\ ExitFrame


\* variant of DeleteVertexArray: the program is deleted a second time
DeleteVertexArray_program ==
    /\ uiPc = "delete_vao"
    /\ live' = live \ {tri.program}
    /\ deletes' = Append(deletes, tri.program)
    /\ uiPc' = "delete_vbo"
    /\ UNCHANGED <<exitGl, mutex, created, vaoState, bindings>>
    /\ ExitFrame

\* destroy, line 115: a deleted vertex array that is bound is unbound
DeleteVertexArray ==
    /\ uiPc = "delete_vao"
    /\ live' = live \ {tri.vertex_array_object}
    /\ deletes' = Append(deletes, tri.vertex_array_object)
    /\ bindings' = IF bindings.vertex_array = tri.vertex_array_object
                   THEN [bindings EXCEPT !.vertex_array = NoHandle]
                   ELSE bindings
    /\ uiPc' = "delete_vbo"
    /\ UNCHANGED <<exitGl, mutex, created, vaoState>>
    /\ ExitFrame

\* destroy, line 116: a deleted buffer that is bound is unbound
DeleteBuffer ==
    /\ uiPc = "delete_vbo"
    /\ live' = live \ {tri.vertex_buffer_object}
    /\ deletes' = Append(deletes, tri.vertex_buffer_object)
    /\ bindings' = IF bindings.array_buffer = tri.vertex_buffer_object
                   THEN [bindings EXCEPT !.array_buffer = NoHandle]
                   ELSE bindings
    /\ uiPc' = "exit_unlock"
    /\ UNCHANGED <<exitGl, mutex, created, vaoState>>
    /\ ExitFrame

\* on_exit, line 73: destroy has returned and the MutexGuard is dropped
ExitUnlock ==
    /\ uiPc = "exit_unlock"
    /\ mutex' = "free"
    /\ uiPc' = "exited"
    /\ UNCHANGED <<exitGl, objVars, vaoState, bindings>>
    /\ ExitFrame

(* --------------------------- specification ---------------------------- *)

Next ==
    \/ MyApp_new
    \/ CreateProgram
    \/ CreateShader
    \/ ShaderSource
    \/ CompileShader
    \/ ShaderStatus
    \/ AttachVertex
    \/ AttachFragment
    \/ LinkProgram
    \/ LinkStatus
    \/ DetachVertex
    \/ DetachFragment
    \/ DeleteVertexShader
    \/ DeleteFragmentShader
    \/ CreateVertexBuffer
    \/ CreateVertexArray
    \/ CreateIndexBuffer
    \/ Construct
    \/ Update
    \/ HostPaint
    \/ Dispatch
    \/ PaintLock
    \/ BindVertexBuffer
    \/ VertexBufferData
    \/ BindVertexArray
    \/ EnableVertexAttribArray
    \/ VertexAttribPointer
    \/ BindIndexBuffer
    \/ IndexBufferData
    \/ UseProgram
    \/ GetUniformLocation
    \/ Uniform4f32
    \/ DrawElements
    \/ ResetCounter
    \/ AdvanceCounter
    \/ PaintUnlock
    \/ OnExit
    \/ ExitLock
    \/ DeleteProgram
    \/ DeleteVertexArray
    \/ DeleteBuffer
    \/ ExitUnlock

Spec == Init /\ [][Next]_vars


(* ------------------------- derived predicates ------------------------- *)

\* positions of the render thread inside the body of paint
PaintBody == {"bind_vbo", "data_vbo", "bind_vao", "enable_attrib",
              "attrib_pointer", "bind_ibo", "data_ibo", "use_program",
              "get_location", "uniform", "draw", "reset", "advance"}

\* positions of the UI thread inside the body of destroy
DestroyBody == {"delete_program", "delete_vao", "delete_vbo"}

\* the four GL objects RotatingTriangle::new created
OwnObjects == {tri.program, tri.vertex_array_object,
               tri.vertex_buffer_object, tri.index_buffer_object}

\* number of delete calls made on a handle
DeleteCount(h) == Cardinality({i \in DOMAIN deletes : deletes[i] = h})

\* destroy has deleted something
DestroyRan == \E i \in DOMAIN deletes : deletes[i] \in OwnObjects

\* destroy has returned
DestroyReturned == exitGl = "Some" /\ uiPc \in {"exit_unlock", "exited"}

\* programs and shaders the application created
AppPrograms == {h \in created : h.kind = "program"} \ {HostProgram}
AppShaders == {h \in created : h.kind = "shader"}

\* both stages exist and compiled successfully
BothCompiled ==
    /\ locals.vertex_shader # NoHandle
    /\ locals.fragment_shader # NoHandle
    /\ compileStatus[locals.vertex_shader]
    /\ compileStatus[locals.fragment_shader]

ShaderDeleted == \E i \in DOMAIN deletes : deletes[i].kind = "shader"

\* the f32 sum of k steps, starting from 0.0
RECURSIVE Acc(_)
Acc(k) == IF k = 0 THEN 0 ELSE F32Add(Acc(k - 1), Step)

(* ------------------------------- claims ------------------------------- *)

\* C1: after destroy(gl) has returned, none of the four GL objects that
\* RotatingTriangle::new created is still live.
C1_DestroyReleasesAll ==
    DestroyReturned => OwnObjects \cap live = {}

\* C2 as stated: the counter always lies in the half-open range [0, 1).
C2_CounterBelowOne ==
    tri.counter >= 0 /\ tri.counter < One

\* C2 amended: the counter always lies in the closed range [0, 1.05]; it
\* does exceed 1.0 (after the 20th draw of a cycle) and the paint that finds
\* it above 1.0 resets it.
C2_CounterWithinOneStepOfOne ==
    /\ tri.counter >= 0
    /\ tri.counter <= One + Step
    /\ (rPc = "advance" /\ entryCounter > One) => tri.counter = 0

C2_Witness ==
    rPc = "idle" /\ tri.counter > One

\* C3 as stated: after N paints the counter is the sum of N mod 21 steps and
\* lies within [0, 1.05].
C3_CounterIsNMod21 ==
    rPc # "advance" =>
        /\ tri.counter = Acc(draws % 21)
        /\ tri.counter <= One + Step

\* C3 amended: after N paints the counter is 0.0 for N = 0 and otherwise the
\* f32 sum of ((N - 1) mod 20) + 1 steps of 0.05, and lies within [0, 1.05].
C3_CounterClosedForm ==
    rPc # "advance" =>
        /\ tri.counter = Acc(IF draws = 0 THEN 0 ELSE ((draws - 1) % 20) + 1)
        /\ tri.counter >= 0
        /\ tri.counter <= One + Step

C3_Witness ==
    rPc = "idle" /\ draws = 21 /\ tri.counter = Step

C5_OneProgramOneTeardown ==
    /\ linkCalls <= 1
    /\ Cardinality(AppPrograms) <= 1
    /\ constructed => (linkCalls = 1 /\ AppPrograms = {tri.program}
                       /\ linkStatus = "ok")
    /\ \A h \in created : DeleteCount(h) <= 1
    /\ (exitGl = "Some" /\ uiPc = "exited") =>
          /\ DeleteCount(tri.program) = 1
          /\ DeleteCount(tri.vertex_array_object) = 1

C5_Witness ==
    exitGl = "Some" /\ uiPc = "exited" /\ draws >= 25

C7_ProgramAfterShaders ==
    /\ locals.program # NoHandle => BothCompiled
    /\ abortReason = "Failed to compile" => AppPrograms = {}
    /\ linkCalls > 0 =>
          linkedStages = {locals.vertex_shader, locals.fragment_shader}
    /\ (detached # {} \/ ShaderDeleted) => linkStatus = "ok"
    /\ abortReason = "link failed" => (detached = {} /\ ~ShaderDeleted)

\* C7 amended: the program object is created first; then the vertex shader
\* and, only after it compiled, the fragment shader are created and
\* compiled; a stage is attached only after both compiled; both are attached
\* before link; detach of both and then delete happen only after a
\* successful link; a compile failure aborts before any attach or link (the
\* program object already exists) and a link failure aborts before any
\* detach or delete.
C7_CreationOrder ==
    /\ AppShaders # {} => locals.program # NoHandle
    /\ Cardinality(AppShaders) <= 2
    /\ Cardinality(AppShaders) = 2 =>
          (locals.vertex_shader # NoHandle
           /\ compileStatus[locals.vertex_shader])
    /\ (attached # {} \/ linkCalls > 0) => BothCompiled
    /\ linkCalls > 0 =>
          linkedStages = {locals.vertex_shader, locals.fragment_shader}
    /\ (detached # {} \/ ShaderDeleted) => linkStatus = "ok"
    /\ ShaderDeleted =>
          detached = {locals.vertex_shader, locals.fragment_shader}
    /\ abortReason = "Failed to compile" =>
          (AppPrograms # {} /\ attached = {} /\ linkCalls = 0)
    /\ abortReason = "link failed" => (detached = {} /\ ~ShaderDeleted)

C7_Witness ==
    /\ uiPc = "aborted"
    /\ abortReason = "Failed to compile"
    /\ stage = "fragment"
    /\ AppPrograms # {}

\* C8: a step of paint creates no GL object and changes no field of the
\* RotatingTriangle except counter; the four handles are always the ones
\* RotatingTriangle::new allocated.
C8_PaintKeepsHandles ==
    /\ [](constructed =>
            /\ tri.program = locals.program
            /\ tri.vertex_array_object = locals.vertex_array_object
            /\ tri.vertex_buffer_object = locals.vertex_buffer_object
            /\ tri.index_buffer_object = locals.index_buffer_object
            /\ OwnObjects \subseteq created
            /\ Cardinality(OwnObjects) = 4)
    /\ [][(rPc \in PaintBody /\ rPc' # rPc) =>
            /\ created' = created
            /\ tri' = [tri EXCEPT !.counter = tri'.counter]]_vars

C8_Witness ==
    /\ rPc = "idle"
    /\ draws >= 2
    /\ tri.vertex_buffer_object \in DOMAIN bufferData
    /\ bufferData[tri.vertex_buffer_object] = vertices
    /\ tri.vertex_buffer_object = locals.vertex_buffer_object

\* C9: the first channel uploaded to u_color is the counter held when the
\* paint started; an upload above 1.0 is never followed by another one above
\* 1.0: the next upload is 0.05, the start of a new cycle.
C9_UploadIsEntryCounter ==
    /\ rPc \in {"draw", "reset", "advance", "unlock"} =>
          (Len(uploads) > 0 /\ uploads[Len(uploads)] = entryCounter)
    /\ \A i \in DOMAIN uploads :
          (uploads[i] > One /\ i < Len(uploads)) =>
              (uploads[i + 1] = Step /\ uploads[i + 1] <= One)
    /\ \A i, j \in DOMAIN uploads :
          (i < j /\ uploads[i] > One /\ uploads[j] > One) =>
              \E k \in (i + 1)..(j - 1) : uploads[k] = Step

C9_Witness ==
    \E i \in DOMAIN uploads :
        uploads[i] > One /\ i < Len(uploads) /\ uploads[i + 1] = Step

\* C10: whatever was bound before, every draw call of paint runs with the
\* vertex buffer, vertex array, index buffer and program of this
\* RotatingTriangle, bound in that order, and draws exactly 6 indices.
C10_DrawUsesOwnBindings ==
    /\ lastDraw.mode # "none" =>
          /\ lastDraw.mode = "TRIANGLES"
          /\ lastDraw.count = 6
          /\ lastDraw.available = lastDraw.count
          /\ lastDraw.program = tri.program
          /\ lastDraw.vertex_array = tri.vertex_array_object
          /\ lastDraw.attrib0 = tri.vertex_buffer_object
          /\ lastDraw.element = tri.index_buffer_object
    /\ rPc \in {"reset", "advance", "unlock"} =>
          bindLog = <<"ARRAY_BUFFER", "VERTEX_ARRAY",
                      "ELEMENT_ARRAY_BUFFER", "PROGRAM">>
    /\ rPc = "draw" =>
          /\ bindings.array_buffer = tri.vertex_buffer_object
          /\ bindings.vertex_array = tri.vertex_array_object
          /\ bindings.program = tri.program
          /\ vaoState[bindings.vertex_array].element = tri.index_buffer_object

C10_Witness ==
    /\ rPc = "reset"
    /\ draws >= 1
    /\ vaoState[HostVertexArray].element = HostBuffer
    /\ lastDraw.count = 6

====
